---- MODULE Spec2Model ----
(***************************************************************************)
(* A model of the incremental extraction pipeline of food-map:             *)
(*   - DatabaseManager (src/src/database/database.py): the posts table,   *)
(*     its UNIQUE(post_id) constraint, the processed-id cache;             *)
(*   - InstagramExtractor.extract_saved_posts                              *)
(*     (src/src/instagram/extractor.py) as a multi-step run that other     *)
(*     callers of the same DatabaseManager may interleave with.            *)
(* Every except-branch of the code is an outcome the environment may       *)
(* choose: a storage error, a failing remote call, a KeyboardInterrupt.    *)
(***************************************************************************)
EXTENDS Integers, Sequences, FiniteSets, TLC

\* ------------------------------------------------------------- bounds
NumIds == 2        \* distinct shortcodes that exist on the remote service
MaxRemote == 2     \* length of the remote saved-posts listing
MaxLikes == 1      \* like counts range over 0..MaxLikes
MaxBatch == 1      \* length of a batch_delete_posts request

Shortcodes == <<"a", "b", "c", "d">>
Ids == {Shortcodes[i] : i \in 1..NumIds}
Likes == 0..MaxLikes
Procs == {1, 2}    \* threads able to run extract_saved_posts

NULL == "NULL"     \* SQL NULL
None == "None"     \* Python None, where strings are expected
NoCache == {"None"} \* Python None, where a set of shortcodes is expected
EmptyId == ""      \* the empty string passed as a post id

\* ------------------------------------------------------------- sequences
RECURSIVE SeqsUpTo(_, _)
SeqsUpTo(S, n) ==
  IF n = 0 THEN {<<>>}
  ELSE LET shorter == SeqsUpTo(S, n - 1)
       IN  shorter \cup {Append(s, x) : s \in {t \in shorter : Len(t) = n - 1}, x \in S}

Range(s) == {s[i] : i \in DOMAIN s}

\* ------------------------------------------------------------- the posts table
\* A row as INSERT creates it: the annotation columns are not in the column
\* list and default to NULL.
Row(shortcode, likes) ==
  [post_id |-> shortcode, likes |-> likes,
   parsed_store |-> NULL, parsed_address |-> NULL]

\* SELECT post_id FROM posts
PersistedIds(tbl) == {tbl[i].post_id : i \in DOMAIN tbl}

\* SELECT COUNT(*) FROM posts
CountRows(tbl) == Len(tbl)

RowsWithId(tbl, id) == {i \in DOMAIN tbl : tbl[i].post_id = id}

\* A table without the UNIQUE constraint: every INSERT appends.
InsertNoUnique(tbl, row) == [err |-> "none", tbl |-> Append(tbl, row)]

\* INSERT INTO posts under "post_id TEXT UNIQUE NOT NULL": a second row with
\* the same post_id raises sqlite3.IntegrityError and the table is unchanged.
InsertRow(tbl, row) ==
  IF RowsWithId(tbl, row.post_id) # {}
  THEN [err |-> "IntegrityError", tbl |-> tbl]
  ELSE [err |-> "none", tbl |-> Append(tbl, row)]

\* DELETE FROM posts WHERE post_id = ?
DeleteRows(tbl, id) == SelectSeq(tbl, LAMBDA r : r.post_id # id)

\* ------------------------------------------------------------- DatabaseManager
\* Each method is an operator from the table, the processed-id cache, the
\* arguments and the environment's choice (which except-branch is taken) to the
\* new table, the new cache and the returned value.

\* get_all_processed_ids: the cache when it is set; else the result of the
\* query, which becomes the cache; set() when the query raises.
get_all_processed_ids(tbl, c, fault) ==
  IF c # NoCache THEN [cache |-> c, ret |-> c, branch |-> "cached"]
  ELSE IF fault THEN [cache |-> c, ret |-> {}, branch |-> "error"]
  ELSE [cache |-> PersistedIds(tbl), ret |-> PersistedIds(tbl), branch |-> "loaded"]

\* save_post deciding by the cache, on a table without the constraint.
save_post_by_cache(tbl, c, shortcode, likes, fault) ==
  LET ins == InsertNoUnique(tbl, Row(shortcode, likes))
  IN  IF fault = "storage"
      THEN [tbl |-> tbl, cache |-> c, ret |-> FALSE, branch |-> "error"]
      ELSE IF c # NoCache /\ shortcode \in c
      THEN [tbl |-> tbl, cache |-> c, ret |-> FALSE, branch |-> "exists"]
      ELSE IF fault = "interrupt"
      THEN [tbl |-> ins.tbl, cache |-> c, ret |-> FALSE, branch |-> "interrupted"]
      ELSE [tbl |-> ins.tbl,
            cache |-> IF c # NoCache THEN c \cup {shortcode} ELSE c,
            ret |-> TRUE, branch |-> "inserted"]

\* A save_post that adds the post to the cache before it knows that the
\* INSERT went through.
save_post_caching_first(tbl, c, shortcode, likes, fault) ==
  LET ins == InsertRow(tbl, Row(shortcode, likes))
      added == IF c # NoCache THEN c \cup {shortcode} ELSE c
  IN  IF fault = "storage"
      THEN [tbl |-> tbl, cache |-> added, ret |-> FALSE, branch |-> "error"]
      ELSE IF ins.err = "IntegrityError"
      THEN [tbl |-> tbl, cache |-> added, ret |-> FALSE, branch |-> "exists"]
      ELSE IF fault = "interrupt"
      THEN [tbl |-> ins.tbl, cache |-> added, ret |-> FALSE, branch |-> "interrupted"]
      ELSE [tbl |-> ins.tbl, cache |-> added, ret |-> TRUE, branch |-> "inserted"]

\* save_post. fault = "storage": connect, execute or commit raises an Exception
\* other than IntegrityError. fault = "interrupt": a KeyboardInterrupt (not an
\* Exception, so no handler of save_post catches it) is raised after commit()
\* and before the cache is updated.
save_post(tbl, c, shortcode, likes, fault) ==
  LET ins == InsertRow(tbl, Row(shortcode, likes))
  IN  IF fault = "storage"
      THEN [tbl |-> tbl, cache |-> c, ret |-> FALSE, branch |-> "error"]
      ELSE IF ins.err = "IntegrityError"
      THEN [tbl |-> tbl, cache |-> c, ret |-> FALSE, branch |-> "exists"]
      ELSE IF fault = "interrupt"
      THEN [tbl |-> ins.tbl, cache |-> c, ret |-> FALSE, branch |-> "interrupted"]
      ELSE [tbl |-> ins.tbl,
            cache |-> IF c # NoCache THEN c \cup {shortcode} ELSE c,
            ret |-> TRUE, branch |-> "inserted"]

\* get_posts_count: 0 when the query raises.
get_posts_count(tbl, fault) == IF fault THEN 0 ELSE CountRows(tbl)

\* delete_post_by_id: the cache is updated only when a row was deleted.
delete_post_by_id(tbl, c, id, fault) ==
  IF fault \/ RowsWithId(tbl, id) = {}
  THEN [tbl |-> tbl, cache |-> c, ret |-> FALSE]
  ELSE [tbl |-> DeleteRows(tbl, id),
        cache |-> IF c # NoCache THEN c \ {id} ELSE c,
        ret |-> TRUE]

\* The loop of batch_delete_posts over post_ids[i..], inside one transaction:
\* bad is the set of positions whose DELETE raises. The cache entry of a
\* deleted id is discarded at once, before the commit.
RECURSIVE batch_delete_loop(_, _, _, _, _, _)
batch_delete_loop(tbl, c, post_ids, i, bad, res) ==
  IF i > Len(post_ids) THEN [tbl |-> tbl, cache |-> c, res |-> res]
  ELSE LET id == post_ids[i]
           failed == [res EXCEPT !.failed_count = @ + 1,
                                 !.failed_posts = Append(@, id)]
       IN  IF id = EmptyId \/ i \in bad \/ RowsWithId(tbl, id) = {}
           THEN batch_delete_loop(tbl, c, post_ids, i + 1, bad, failed)
           ELSE batch_delete_loop(
                  DeleteRows(tbl, id),
                  IF c # NoCache THEN c \ {id} ELSE c,
                  post_ids, i + 1, bad,
                  [res EXCEPT !.success_count = @ + 1,
                              !.success_posts = Append(@, id)])

BatchResult0 ==
  [success_count |-> 0, failed_count |-> 0,
   success_posts |-> <<>>, failed_posts |-> <<>>]

\* A batch that deletes nothing unless every id can be deleted.
batch_delete_all_or_nothing(tbl, c, post_ids, bad, outer) ==
  LET done == batch_delete_loop(tbl, c, post_ids, 1, bad, BatchResult0)
      whole == [BatchResult0 EXCEPT !.failed_count = Len(post_ids),
                                    !.failed_posts = <<"batch">>]
  IN  IF outer # "none" \/ done.res.failed_count > 0
      THEN [tbl |-> tbl, cache |-> c, res |-> whole]
      ELSE done

\* batch_delete_posts. outer = "connect": sqlite3.connect raises, nothing is
\* done. outer = "commit": conn.commit() raises after the loop, the
\* transaction is lost but the cache entries are already discarded.
batch_delete_posts(tbl, c, post_ids, bad, outer) ==
  LET done == batch_delete_loop(tbl, c, post_ids, 1, bad, BatchResult0)
      whole == [BatchResult0 EXCEPT !.failed_count = Len(post_ids),
                                    !.failed_posts = <<"batch">>]
  IN  IF outer = "connect" THEN [tbl |-> tbl, cache |-> c, res |-> whole]
      ELSE IF outer = "commit" THEN [tbl |-> tbl, cache |-> done.cache, res |-> whole]
      ELSE done

\* ------------------------------------------------------------- state
VARIABLES
  posts,          \* the posts table, in rowid order
  cache,          \* DatabaseManager._processed_ids_cache: NoCache or a set
  remote,         \* the saved posts the remote service lists, in its order
  is_logged_in,   \* InstagramAuth._is_logged_in
  profile_cache,  \* ProfileManager._profile_cache is set
  run,            \* per thread: the locals of extract_saved_posts
  obs,            \* per thread: what has been observed of its current run
  last,           \* the DatabaseManager call the latest step of a run made, if any
  needs_2fa,      \* InstagramAuth._needs_2fa
  schema,         \* the columns of the posts table of the database file
  hist            \* history: events that some specifications note, as records

vars == <<posts, cache, remote, is_logged_in, profile_cache, run, obs, last,
         needs_2fa, schema, hist>>

\* schema: the modelled columns of the posts table of the file, {} when the
\* file has no posts table. A row is a record over those columns.
NoTable == {}
LegacyColumns == {"post_id", "likes"}
AnnotationColumns == {"parsed_store", "parsed_address"}
CurrentColumns == LegacyColumns \cup AnnotationColumns

RemoteLists == SeqsUpTo(Ids, MaxRemote)
BatchLists == SeqsUpTo(Ids \cup {EmptyId}, MaxBatch)

\* The database file an extractor is constructed on: rows of earlier sessions.
InitialTables ==
  {t \in SeqsUpTo({Row(id, 0) : id \in Ids}, NumIds) :
     \A i, j \in DOMAIN t : i # j => t[i].post_id # t[j].post_id}

NoCall == [op |-> "none"]

\* ExtractResult (src/src/models/models.py); username is the constant subject.
ExtractResult(success, total_found, new_posts, skipped_posts, total_in_db, error) ==
  [success |-> success, total_found |-> total_found, new_posts |-> new_posts,
   skipped_posts |-> skipped_posts, total_in_db |-> total_in_db, error |-> error]

\* A failure report that keeps the default of a success.
FailureAsSuccess(error) == ExtractResult(TRUE, 0, 0, 0, 0, error)

\* ExtractResult(success=False, username=..., error=...): the counts keep
\* their default 0.
Failure(error) == ExtractResult(FALSE, 0, 0, 0, 0, error)

NoResult == [success |-> FALSE, error |-> "pending"]

IdleRun ==
  [pc |-> "idle", existing_count |-> 0, processed_set |-> {}, aliased |-> FALSE,
   tmp_ids |-> {}, saved_posts_list |-> <<>>, new_shortcodes |-> {},
   idx |-> 1, count |-> 0, total_found |-> 0, skipped_count |-> 0,
   result |-> NoResult]

\* History of one run. rows0: the table when the run started. authed:
\* is_logged_in when it started. remote_failed: the profile lookup or the
\* fetch of the listing failed. ins: ids this
\* run inserted. att: list positions whose processing was started. failed:
\* positions that ended in the per-item "except Exception". skips: ids whose
\* save_post hit IntegrityError. quiet: no other caller wrote to the store
\* since the run started. clean: no except-branch was taken and no interrupt
\* arrived in this run. intr: where a KeyboardInterrupt arrived ("break":
\* inside the per-item try, "loop": at the for statement, "outside": elsewhere).
\* calls: collaborators the run has called.
\* prevGood, prevList: the previous run of this thread returned success, was
\* clean and quiet, nothing was called since; and the listing it fetched.
FreshObs(tbl, authed, prevGood, prevList) ==
  [rows0 |-> tbl, authed |-> authed, remote_failed |-> FALSE,
   ins |-> {}, att |-> {}, failed |-> {}, skips |-> {},
   quiet |-> TRUE, clean |-> TRUE, intr |-> "none", calls |-> {},
   prevGood |-> prevGood, prevList |-> prevList]

\* Another caller acted: runs in progress are no longer alone on the store
\* (when it wrote), and the next run is not "in succession" to the previous.
Disturb(o, wrote) ==
  [q \in Procs |-> [o[q] EXCEPT !.quiet = @ /\ ~wrote,
                                !.prevGood = FALSE, !.prevList = <<>>]]

\* The manager changed the cache set in place (add, discard): every local
\* that is a reference to that very set shows the change.
Sync(r, c) ==
  [q \in Procs |-> IF r[q].aliased /\ c # NoCache
                   THEN [r[q] EXCEPT !.processed_set = c] ELSE r[q]]

\* The manager dropped its cache set for None or another set: locals that
\* referenced it keep the old set, which nothing updates any more.
Unalias(r) == [q \in Procs |-> [r[q] EXCEPT !.aliased = FALSE]]

Init ==
  /\ posts \in InitialTables
  /\ cache = NoCache
  /\ remote \in RemoteLists
  /\ is_logged_in = FALSE
  /\ profile_cache = FALSE
  /\ run = [p \in Procs |-> IdleRun]
  /\ obs = [p \in Procs |-> FreshObs(<<>>, FALSE, FALSE, <<>>)]
  /\ last = NoCall
  /\ needs_2fa = FALSE
  /\ schema = CurrentColumns
  /\ hist = {}

\* ------------------------------------------------------------- other callers
\* Calls made on the same extractor by its other users. delete_post_by_id
\* may be called while a run is in progress; the others are called between
\* runs.
Idle == \A p \in Procs : run[p].pc = "idle"

Login ==
  /\ ~is_logged_in
  /\ is_logged_in' = TRUE
  /\ obs' = Disturb(obs, FALSE)
  /\ last' = NoCall
  /\ UNCHANGED <<posts, cache, remote, profile_cache, run>>
  /\ UNCHANGED <<needs_2fa, schema, hist>>

\* The user saves or unsaves posts on the remote service. A run reads the
\* remote listing once (RunFetch), so a change during a run is the same as
\* one just before or just after it: the action is taken between runs.
RemoteChange ==
  /\ Idle
  /\ \E l \in RemoteLists \ {remote} : remote' = l
  /\ obs' = Disturb(obs, FALSE)
  /\ last' = NoCall
  /\ UNCHANGED <<posts, cache, is_logged_in, profile_cache, run>>
  /\ UNCHANGED <<needs_2fa, schema, hist>>

\* InstagramExtractor.close: both caches are cleared.
Close ==
  /\ Idle
  /\ cache # NoCache \/ profile_cache
  /\ cache' = NoCache
  /\ profile_cache' = FALSE
  /\ run' = Unalias(run)
  /\ obs' = Disturb(obs, FALSE)
  /\ last' = NoCall
  /\ UNCHANGED <<posts, remote, is_logged_in>>
  /\ UNCHANGED <<needs_2fa, schema, hist>>

DeletePost ==
  /\ \E id \in Ids, fault \in BOOLEAN :
    LET r == delete_post_by_id(posts, cache, id, fault)
    IN  /\ posts' = r.tbl
        /\ cache' = r.cache
        /\ run' = Sync(run, r.cache)
        /\ obs' = Disturb(obs, r.ret)
        /\ last' = NoCall
        /\ UNCHANGED <<remote, is_logged_in, profile_cache>>
  /\ UNCHANGED <<needs_2fa, schema, hist>>

BatchDelete ==
  /\ Idle
  /\ \E ids \in BatchLists, outer \in {"none", "connect", "commit"} :
    \E bad \in SUBSET DOMAIN ids :
      LET r == batch_delete_posts(posts, cache, ids, bad, outer)
      IN  /\ posts' = r.tbl
          /\ cache' = r.cache
          /\ run' = Sync(run, r.cache)
          /\ obs' = Disturb(obs, r.tbl # posts)
          /\ last' = NoCall
          /\ UNCHANGED <<remote, is_logged_in, profile_cache>>
  /\ UNCHANGED <<needs_2fa, schema, hist>>

\* ------------------------------------------------------------- extract_saved_posts
\* The run of thread p, one action per blocking call. f: whether the
\* environment may make a call fail (an except-branch of the code).
Faults(f) == IF f THEN BOOLEAN ELSE {FALSE}

\* extract_saved_posts without its login check.
RunStartUnchecked(p, f) ==
  /\ run[p].pc = "idle"
  /\ run' = [run EXCEPT ![p].pc = "count0"]
  /\ obs' = [obs EXCEPT ![p] = FreshObs(posts, is_logged_in, obs[p].prevGood,
                                        obs[p].prevList)]
  /\ last' = NoCall
  /\ UNCHANGED <<posts, cache, remote, is_logged_in, profile_cache>>
  /\ UNCHANGED <<needs_2fa, schema, hist>>

\* Lines 67-73: the login check, then ProfileManager.get_profile, which
\* answers from its cache or asks the remote service (None when that fails).
RunStart(p, f) ==
  /\ run[p].pc = "idle"
  /\ \E profile_fails \in Faults(f) :
       LET fresh == FreshObs(posts, is_logged_in, obs[p].prevGood, obs[p].prevList)
           asked == IF profile_cache THEN {} ELSE {"remote"}
       IN  IF ~is_logged_in
           THEN /\ run' = [run EXCEPT ![p].pc = "done",
                                      ![p].result = Failure("not_logged_in")]
                /\ obs' = [obs EXCEPT ![p] = fresh]
                /\ UNCHANGED profile_cache
           ELSE IF profile_cache \/ ~profile_fails
           THEN /\ run' = [run EXCEPT ![p].pc = "count0"]
                /\ obs' = [obs EXCEPT ![p] = [fresh EXCEPT !.calls = asked]]
                /\ profile_cache' = TRUE
           ELSE /\ run' = [run EXCEPT ![p].pc = "done",
                                      ![p].result = Failure("no_profile")]
                /\ obs' = [obs EXCEPT ![p] = [fresh EXCEPT !.calls = asked,
                                                           !.remote_failed = TRUE,
                                                           !.clean = FALSE]]
                /\ UNCHANGED profile_cache
  /\ last' = NoCall
  /\ UNCHANGED <<posts, cache, remote, is_logged_in>>
  /\ UNCHANGED <<needs_2fa, schema, hist>>

\* Line 76: existing_count = get_posts_count()
RunCount0(p, f) ==
  /\ run[p].pc = "count0"
  /\ \E fault \in Faults(f) :
       /\ run' = [run EXCEPT ![p].pc = "ids",
                             ![p].existing_count = get_posts_count(posts, fault)]
       /\ obs' = [obs EXCEPT ![p].calls = @ \cup {"store"},
                             ![p].clean = @ /\ ~fault]
       /\ last' = [op |-> "get_posts_count",
                   ret |-> get_posts_count(posts, fault), by |-> p]
  /\ UNCHANGED <<posts, cache, remote, is_logged_in, profile_cache>>
  /\ UNCHANGED <<needs_2fa, schema, hist>>

\* Line 80: processed_set = get_all_processed_ids(), up to the end of the
\* query. With the cache set the call returns that very set at once.
RunIds(p, f) ==
  /\ run[p].pc = "ids"
  /\ \E fault \in Faults(f) :
       LET r == get_all_processed_ids(posts, cache, fault)
       IN  /\ run' = IF r.branch = "loaded"
                     THEN [run EXCEPT ![p].pc = "ids_assign", ![p].tmp_ids = r.ret]
                     ELSE [run EXCEPT ![p].pc = "fetch",
                                      ![p].processed_set = r.ret,
                                      ![p].aliased = (r.branch = "cached")]
           /\ obs' = [obs EXCEPT ![p].calls = @ \cup {"store"},
                                 ![p].clean = @ /\ (r.branch # "error")]
           /\ last' = [op |-> "get_all_processed_ids", ret |-> r.ret,
                       branch |-> r.branch, by |-> p]
  /\ UNCHANGED <<posts, cache, remote, is_logged_in, profile_cache>>
  /\ UNCHANGED <<needs_2fa, schema, hist>>

\* Lines 110-112 of database.py: the set that was read becomes the cache and
\* is returned.
RunIdsAssign(p) ==
  /\ run[p].pc = "ids_assign"
  /\ cache' = run[p].tmp_ids
  /\ run' = [Unalias(run) EXCEPT ![p].pc = "fetch",
                                 ![p].processed_set = run[p].tmp_ids,
                                 ![p].aliased = TRUE,
                                 ![p].tmp_ids = {}]
  /\ last' = NoCall
  /\ UNCHANGED <<posts, remote, is_logged_in, profile_cache, obs>>
  /\ UNCHANGED <<needs_2fa, schema, hist>>

\* Lines 92-102: the whole remote listing is pulled into a list, then the
\* set difference is taken. A failing fetch is the outer "except Exception".
\* processed_set is not read after line 101 and is dropped here.
RunFetch(p, f) ==
  /\ run[p].pc = "fetch"
  /\ \E fetch_fails \in Faults(f) :
       LET saved_shortcodes == Range(remote)
           total == Cardinality(saved_shortcodes)
           new == saved_shortcodes \ run[p].processed_set
       IN  /\ run' = IF fetch_fails
                     THEN [run EXCEPT ![p].pc = "done",
                                      ![p].result = Failure("fetch_error")]
                     ELSE [run EXCEPT ![p].pc = "loop",
                                      ![p].saved_posts_list = remote,
                                      ![p].total_found = total,
                                      ![p].new_shortcodes = new,
                                      ![p].skipped_count = total - Cardinality(new),
                                      ![p].processed_set = {},
                                      ![p].aliased = FALSE,
                                      ![p].idx = 1]
           /\ obs' = [obs EXCEPT ![p].calls = @ \cup {"remote"},
                                 ![p].remote_failed = fetch_fails,
                                 ![p].clean = @ /\ ~fetch_fails]
  /\ last' = NoCall
  /\ UNCHANGED <<posts, cache, remote, is_logged_in, profile_cache>>
  /\ UNCHANGED <<needs_2fa, schema, hist>>

\* Lines 111-113: the for statement and its "continue" over posts that are
\* not new, up to the next new post or the end of the list.
NextNew(list, new, i) ==
  LET rest == {j \in i..Len(list) : list[j] \in new}
  IN  IF rest = {} THEN Len(list) + 1
      ELSE CHOOSE j \in rest : \A k \in rest : j <= k

RunLoop(p) ==
  /\ run[p].pc = "loop"
  /\ LET j == NextNew(run[p].saved_posts_list, run[p].new_shortcodes, run[p].idx)
     IN  run' = [run EXCEPT ![p].idx = j,
                            ![p].pc = IF j > Len(run[p].saved_posts_list)
                                      THEN "count1" ELSE "item"]
  /\ last' = NoCall
  /\ UNCHANGED <<posts, cache, remote, is_logged_in, profile_cache, obs>>
  /\ UNCHANGED <<needs_2fa, schema, hist>>

\* What may happen inside the per-item try (lines 117-144):
\*   "saved"            save_post runs to its return;
\*   "storage_error"    save_post takes its "except Exception";
\*   "item_exception"   reading the post (lines 118-123) raises an Exception;
\*   "interrupt_before" KeyboardInterrupt before save_post is called;
\*   "interrupt_inside" KeyboardInterrupt in save_post, after the commit;
\*   "interrupt_after"  KeyboardInterrupt after save_post returned.
ItemOutcomes(f) ==
  IF f THEN {"saved", "storage_error", "item_exception", "interrupt_before",
             "interrupt_inside", "interrupt_after"}
  ELSE {"saved"}

\* A loop that a failing item ends.
ItemBreaksOnFailure(out, branch) ==
  \/ out \in {"interrupt_before", "interrupt_after", "item_exception"}
  \/ branch \in {"interrupted", "error"}

\* Lines 139-144: "except KeyboardInterrupt: break", "except Exception:
\* continue". Whether the loop is left after the item.
ItemBreaks(out, branch) ==
  \/ out \in {"interrupt_before", "interrupt_after"}
  \/ branch = "interrupted"

SaveFault(out) ==
  CASE out = "storage_error" -> "storage"
    [] out = "interrupt_inside" -> "interrupt"
    [] OTHER -> "none"

RunItemStep(p, f) ==
  /\ run[p].pc = "item"
  /\ \E out \in ItemOutcomes(f), l \in Likes :
       LET i == run[p].idx
           id == run[p].saved_posts_list[i]
           called == out \notin {"item_exception", "interrupt_before"}
           r == IF called THEN save_post(posts, cache, id, l, SaveFault(out))
                ELSE [tbl |-> posts, cache |-> cache, ret |-> FALSE, branch |-> "none"]
           broke == ItemBreaks(out, r.branch)
           synced == Sync(run, r.cache)
       IN  /\ posts' = r.tbl
           /\ cache' = r.cache
           /\ run' = [synced EXCEPT
                        ![p].count = IF r.ret THEN @ + 1 ELSE @,
                        ![p].idx = IF broke THEN @ ELSE @ + 1,
                        ![p].pc = IF broke THEN "count1" ELSE "loop"]
           /\ obs' = [q \in Procs |->
                        IF q = p
                        THEN [obs[p] EXCEPT
                                !.att = @ \cup {i},
                                !.ins = IF r.tbl # posts THEN @ \cup {id} ELSE @,
                                !.failed = IF out = "item_exception" \/ r.branch = "error"
                                           THEN @ \cup {i} ELSE @,
                                !.skips = IF r.branch = "exists" THEN @ \cup {id} ELSE @,
                                !.clean = @ /\ out = "saved",
                                !.intr = IF out \notin {"saved", "storage_error",
                                                         "item_exception"}
                                         THEN "break" ELSE @,
                                !.calls = @ \cup (IF called THEN {"store"} ELSE {})]
                        ELSE [obs[q] EXCEPT !.quiet = @ /\ (r.tbl = posts)]]
           /\ last' = IF called
                      THEN [op |-> "save_post", id |-> id, likes |-> l,
                            fault |-> SaveFault(out), ret |-> r.ret,
                            branch |-> r.branch, pre |-> posts, by |-> p]
                      ELSE NoCall
  /\ UNCHANGED <<remote, is_logged_in, profile_cache>>

\* One pass through the body of the loop.
RunItem(p, f) ==
  /\ RunItemStep(p, f)
  /\ UNCHANGED <<needs_2fa, schema, hist>>

\* Lines 152-162: the second count and the report.
RunCount1(p, f) ==
  /\ run[p].pc = "count1"
  /\ \E fault \in Faults(f) :
       LET final_count == get_posts_count(posts, fault)
           new_count == final_count - run[p].existing_count
       IN  /\ run' = [run EXCEPT
                        ![p].pc = "done",
                        ![p].result = ExtractResult(TRUE, run[p].total_found, new_count,
                                                    run[p].skipped_count, final_count,
                                                    None)]
           /\ obs' = [obs EXCEPT ![p].clean = @ /\ ~fault]
           /\ last' = [op |-> "get_posts_count", ret |-> final_count, by |-> p]
  /\ UNCHANGED <<posts, cache, remote, is_logged_in, profile_cache>>
  /\ UNCHANGED <<needs_2fa, schema, hist>>

\* A KeyboardInterrupt outside the per-item try: it is not an Exception, so
\* neither "except Exception" (lines 142, 146) catches it and it leaves
\* extract_saved_posts as an exception.
RunInterrupt(p) ==
  /\ run[p].pc \in {"count0", "ids", "ids_assign", "fetch", "loop", "count1"}
  /\ run' = [run EXCEPT ![p].pc = "raised"]
  /\ obs' = [obs EXCEPT ![p].clean = FALSE,
                        ![p].intr = IF run[p].pc = "loop" THEN "loop" ELSE "outside"]
  /\ last' = NoCall
  /\ UNCHANGED <<posts, cache, remote, is_logged_in, profile_cache>>
  /\ UNCHANGED <<needs_2fa, schema, hist>>

\* The call is over: its locals are gone.
RunReturn(p) ==
  /\ run[p].pc \in {"done", "raised"}
  /\ run' = [run EXCEPT ![p] = IdleRun]
  /\ LET good == /\ run[p].pc = "done"
                 /\ run[p].result.success
                 /\ obs[p].clean
                 /\ obs[p].quiet
     IN  obs' = [obs EXCEPT
                   ![p] = FreshObs(<<>>, FALSE, good,
                                   IF good THEN run[p].saved_posts_list ELSE <<>>)]
  /\ last' = NoCall
  /\ UNCHANGED <<posts, cache, remote, is_logged_in, profile_cache>>
  /\ UNCHANGED <<needs_2fa, schema, hist>>

\* ------------------------------------------------------------- specifications
\* One extraction thread, other callers of the same extractor, and every
\* failure the code has a branch for.
Next ==
  \/ Login \/ RemoteChange \/ Close \/ DeletePost \/ BatchDelete
  \/ RunStart(1, TRUE) \/ RunCount0(1, TRUE) \/ RunIds(1, TRUE) \/ RunIdsAssign(1)
  \/ RunFetch(1, TRUE) \/ RunLoop(1) \/ RunItem(1, TRUE) \/ RunCount1(1, TRUE)
  \/ RunInterrupt(1) \/ RunReturn(1)

Spec == Init /\ [][Next]_vars

\* Two extraction threads on one extractor (two background tasks of
\* /extract), a reliable store and remote service, no other caller.
InitConc ==
  /\ posts \in InitialTables
  /\ cache = NoCache
  /\ remote \in RemoteLists
  /\ is_logged_in = TRUE
  /\ profile_cache = FALSE
  /\ run = [p \in Procs |-> IdleRun]
  /\ obs = [p \in Procs |-> FreshObs(<<>>, FALSE, FALSE, <<>>)]
  /\ last = NoCall
  /\ needs_2fa = FALSE
  /\ schema = CurrentColumns
  /\ hist = {}

NextConc ==
  \E p \in Procs :
    \/ RunStart(p, FALSE) \/ RunCount0(p, FALSE) \/ RunIds(p, FALSE)
    \/ RunIdsAssign(p) \/ RunFetch(p, FALSE) \/ RunLoop(p)
    \/ RunItem(p, FALSE) \/ RunCount1(p, FALSE) \/ RunReturn(p)

SpecConc == InitConc /\ [][NextConc]_vars

\* ------------------------------------------------------------- annotations
\* The posts table with the columns the annotation and listing methods use.
\* post_date is the post's date, updated_at the stamp of the last change
\* (DEFAULT CURRENT_TIMESTAMP at the insert, CURRENT_TIMESTAMP at an update).
MaxDate == 2
MaxTime == 1
MaxLimit == 2
MaxUpdates == 2

Dates == 1..MaxDate
Times == 0..MaxTime
\* The values of a TEXT column besides NULL: the empty string and a text.
EmptyText == ""
Texts == {EmptyText, "x"}
\* An optional argument: None, or a text.
AnnotationArgs == {None} \cup Texts
\* limit = None
NoLimit == -1
Limits == {NoLimit} \cup 0..MaxLimit
Offsets == 0..MaxLimit

\* A row as save_post inserts it, with its post_date and time of insertion.
PostRow(shortcode, date) ==
  [post_id |-> shortcode, likes |-> 0,
   parsed_store |-> NULL, parsed_address |-> NULL,
   post_date |-> date, updated_at |-> 0]

\* CURRENT_TIMESTAMP: not before any stamp in the table.
Clock(tbl) == {t \in Times : \A i \in DOMAIN tbl : tbl[i].updated_at <= t}

\* An UPDATE that writes both annotation columns, supplied or not.
UpdateRowsBoth(tbl, post_id, parsed_store, parsed_address, now) ==
  [i \in DOMAIN tbl |->
     IF tbl[i].post_id = post_id
     THEN [tbl[i] EXCEPT
             !.parsed_store = IF parsed_store # None THEN parsed_store ELSE NULL,
             !.parsed_address = IF parsed_address # None THEN parsed_address ELSE NULL,
             !.updated_at = now]
     ELSE tbl[i]]

\* An UPDATE that stamps post_date as well as updated_at.
UpdateRowsStampingDate(tbl, post_id, parsed_store, parsed_address, now) ==
  [i \in DOMAIN tbl |->
     IF tbl[i].post_id = post_id
     THEN [tbl[i] EXCEPT
             !.parsed_store = IF parsed_store # None THEN parsed_store ELSE @,
             !.parsed_address = IF parsed_address # None THEN parsed_address ELSE @,
             !.post_date = now,
             !.updated_at = now]
     ELSE tbl[i]]

\* UPDATE posts SET <the supplied columns>, updated_at = CURRENT_TIMESTAMP
\* WHERE post_id = ?
UpdateRows(tbl, post_id, parsed_store, parsed_address, now) ==
  [i \in DOMAIN tbl |->
     IF tbl[i].post_id = post_id
     THEN [tbl[i] EXCEPT
             !.parsed_store = IF parsed_store # None THEN parsed_store ELSE @,
             !.parsed_address = IF parsed_address # None THEN parsed_address ELSE @,
             !.updated_at = now]
     ELSE tbl[i]]

\* update_post_metadata. fault: connect, execute or commit raises.
update_post_metadata(tbl, post_id, parsed_store, parsed_address, now, fault) ==
  IF fault THEN [tbl |-> tbl, ret |-> FALSE, branch |-> "error"]
  ELSE IF parsed_store = None /\ parsed_address = None
  THEN [tbl |-> tbl, ret |-> FALSE, branch |-> "no_fields"]
  ELSE IF RowsWithId(tbl, post_id) = {}
  THEN [tbl |-> tbl, ret |-> FALSE, branch |-> "not_found"]
  ELSE [tbl |-> UpdateRows(tbl, post_id, parsed_store, parsed_address, now),
        ret |-> TRUE, branch |-> "updated"]

\* One entry of the updates list of batch_update_post_metadata.
Update(post_id, parsed_store, parsed_address) ==
  [post_id |-> post_id, parsed_store |-> parsed_store,
   parsed_address |-> parsed_address]

\* What batch_update_post_metadata does with entry u on table tbl: the error
\* it reports, or "updated". raises: the UPDATE of this entry raises.
EntryOutcome(tbl, u, raises) ==
  IF u.post_id = EmptyId THEN "missing_id"
  ELSE IF u.parsed_store = None /\ u.parsed_address = None THEN "no_fields"
  ELSE IF raises THEN "exception"
  ELSE IF RowsWithId(tbl, u.post_id) = {} THEN "not_found"
  ELSE "updated"

\* A loop that the first failing entry ends.
RECURSIVE batch_update_until_failure(_, _, _, _, _, _)
batch_update_until_failure(tbl, updates, i, now, bad, res) ==
  IF i > Len(updates) THEN [tbl |-> tbl, res |-> res]
  ELSE LET u == updates[i]
           out == EntryOutcome(tbl, u, i \in bad)
       IN  IF out = "updated"
           THEN batch_update_until_failure(
                  UpdateRows(tbl, u.post_id, u.parsed_store, u.parsed_address, now),
                  updates, i + 1, now, bad,
                  [res EXCEPT !.success_count = @ + 1,
                              !.success_posts = Append(@, u)])
           ELSE [tbl |-> tbl,
                 res |-> [res EXCEPT
                            !.failed_count = @ + 1,
                            !.failed_posts = Append(@, [post_id |-> u.post_id,
                                                        error |-> out])]]

\* The loop of batch_update_post_metadata over updates[i..], inside one
\* transaction. bad: the positions whose UPDATE raises.
RECURSIVE batch_update_loop(_, _, _, _, _, _)
batch_update_loop(tbl, updates, i, now, bad, res) ==
  IF i > Len(updates) THEN [tbl |-> tbl, res |-> res]
  ELSE LET u == updates[i]
           out == EntryOutcome(tbl, u, i \in bad)
       IN  IF out = "updated"
           THEN batch_update_loop(
                  UpdateRows(tbl, u.post_id, u.parsed_store, u.parsed_address, now),
                  updates, i + 1, now, bad,
                  [res EXCEPT !.success_count = @ + 1,
                              !.success_posts = Append(@, u)])
           ELSE batch_update_loop(
                  tbl, updates, i + 1, now, bad,
                  [res EXCEPT
                     !.failed_count = @ + 1,
                     !.failed_posts = Append(@, [post_id |-> u.post_id,
                                                 error |-> out])])

\* batch_update_post_metadata. outer = "connect": sqlite3.connect raises.
\* outer = "commit": conn.commit() raises after the loop and the transaction
\* is lost. Both end in the outer handler, which reports the whole batch.
batch_update_post_metadata(tbl, updates, now, bad, outer) ==
  LET done == batch_update_loop(tbl, updates, 1, now, bad, BatchResult0)
      whole == [BatchResult0 EXCEPT
                  !.failed_count = Len(updates),
                  !.failed_posts = <<[post_id |-> "batch", error |-> "exception"]>>]
  IN  IF outer = "none" THEN done ELSE [tbl |-> tbl, res |-> whole]

\* ------------------------------------------------------------- listings
\* ORDER BY <column> DESC: the rows in an order that is descending in the
\* column; the order among rows with equal values is SQLite's choice.
Perms(n) ==
  {s \in SeqsUpTo(1..n, n) :
     Len(s) = n /\ \A i, j \in DOMAIN s : i # j => s[i] # s[j]}

DescOrders(tbl, column) ==
  {o \in Perms(Len(tbl)) :
     \A i, j \in DOMAIN o : i < j => tbl[o[i]][column] >= tbl[o[j]][column]}

Ordered(tbl, ord) == [i \in DOMAIN ord |-> tbl[ord[i]]]

\* LIMIT limit OFFSET offset
LimitOffset(s, limit, offset) ==
  LET hi == IF offset + limit < Len(s) THEN offset + limit ELSE Len(s)
  IN  IF offset >= hi THEN <<>> ELSE SubSeq(s, offset + 1, hi)

\* A WHERE clause that takes an empty parsed_address for a missing one.
IsUnparsedRowOrEmptyAddress(r) ==
  /\ r.parsed_store = NULL \/ r.parsed_store = EmptyText
  /\ r.parsed_address = NULL \/ r.parsed_address = EmptyText

\* WHERE (parsed_store IS NULL OR parsed_store = '') AND parsed_address IS NULL
IsUnparsedRow(r) ==
  (r.parsed_store = NULL \/ r.parsed_store = EmptyText) /\ r.parsed_address = NULL

\* WHERE parsed_address IS NOT NULL AND parsed_address != ''
IsParsedRow(r) == r.parsed_address # NULL /\ r.parsed_address # EmptyText

\* get_posts: "if limit:" adds LIMIT and OFFSET to the query; with limit None
\* or 0 the query has neither. [] when the query raises. ord: the order
\* SQLite returns the rows in, one of DescOrders(tbl, "post_date").
get_posts(tbl, limit, offset, ord, fault) ==
  IF fault THEN <<>>
  ELSE IF limit = NoLimit \/ limit = 0 THEN Ordered(tbl, ord)
  ELSE LimitOffset(Ordered(tbl, ord), limit, offset)

\* get_unparsed_posts: the post_ids of the matching rows. With limit None the
\* query text ends in "ORDER BY post_date DESC OFFSET ?": SQLite accepts
\* OFFSET only after LIMIT, execute raises OperationalError (a syntax
\* error) and the handler returns []. ord: one of DescOrders(tbl, "post_date").
get_unparsed_posts(tbl, limit, offset, ord, fault) ==
  IF fault \/ limit = NoLimit THEN <<>>
  ELSE LET rows == LimitOffset(SelectSeq(Ordered(tbl, ord), IsUnparsedRow),
                               limit, offset)
       IN  [i \in DOMAIN rows |-> rows[i].post_id]

\* get_parsed_posts: post_id, parsed_store and parsed_address of the matching
\* rows; the same query text with limit None. ord: one of
\* DescOrders(tbl, "updated_at").
get_parsed_posts(tbl, limit, offset, ord, fault) ==
  IF fault \/ limit = NoLimit THEN <<>>
  ELSE LET rows == LimitOffset(SelectSeq(Ordered(tbl, ord), IsParsedRow),
                               limit, offset)
       IN  [i \in DOMAIN rows |->
              [post_id |-> rows[i].post_id, parsed_store |-> rows[i].parsed_store,
               parsed_address |-> rows[i].parsed_address]]

\* ------------------------------------------------------------- annotation callers
\* The database files the annotation endpoints are called on: rows as
\* extraction left them.
StoreTables ==
  {t \in SeqsUpTo({PostRow(id, d) : id \in Ids, d \in Dates}, NumIds) :
     \A i, j \in DOMAIN t : i # j => t[i].post_id # t[j].post_id}

\* The entries a caller puts in a batch: with or without an id, with no
\* field, a store or an address.
UpdateEntries ==
  {Update(id, f[1], f[2]) :
     id \in Ids \cup {EmptyId},
     f \in {<<None, None>>, <<"x", None>>, <<None, "x">>}}

UpdateLists == SeqsUpTo(UpdateEntries, MaxUpdates)

InitStore ==
  /\ posts \in StoreTables
  /\ cache = NoCache
  /\ remote = <<>>
  /\ is_logged_in = FALSE
  /\ profile_cache = FALSE
  /\ run = [p \in Procs |-> IdleRun]
  /\ obs = [p \in Procs |-> FreshObs(<<>>, FALSE, FALSE, <<>>)]
  /\ last = NoCall
  /\ needs_2fa = FALSE
  /\ schema = CurrentColumns
  /\ hist = {}

\* The calls are made one after the other: a call is made when the result
\* of the previous one has been handed to its caller.
UpdatePostMetadata ==
  /\ last = NoCall
  /\ \E id \in Ids, ps \in AnnotationArgs, pa \in AnnotationArgs,
     now \in Clock(posts), fault \in BOOLEAN :
    LET r == update_post_metadata(posts, id, ps, pa, now, fault)
    IN  /\ posts' = r.tbl
        /\ last' = [op |-> "update_post_metadata", id |-> id,
                    parsed_store |-> ps, parsed_address |-> pa, fault |-> fault,
                    pre |-> posts, ret |-> r.ret, branch |-> r.branch]
        /\ UNCHANGED <<cache, remote, is_logged_in, profile_cache, run, obs>>
  /\ UNCHANGED <<needs_2fa, schema, hist>>

BatchUpdatePostMetadata ==
  /\ last = NoCall
  /\ \E updates \in UpdateLists, now \in Clock(posts),
     outer \in {"none", "connect", "commit"} :
    \E bad \in {{}} \cup {{i} : i \in DOMAIN updates} :
      LET r == batch_update_post_metadata(posts, updates, now, bad, outer)
      IN  /\ outer # "none" => bad = {}
          /\ posts' = r.tbl
          /\ last' = [op |-> "batch_update_post_metadata", updates |-> updates,
                      bad |-> bad, outer |-> outer, pre |-> posts, res |-> r.res]
          /\ UNCHANGED <<cache, remote, is_logged_in, profile_cache, run, obs>>
  /\ UNCHANGED <<needs_2fa, schema, hist>>

GetPosts ==
  /\ last = NoCall
  /\ \E limit \in Limits, offset \in Offsets, fault \in BOOLEAN :
    \E ord \in DescOrders(posts, "post_date") :
      /\ last' = [op |-> "get_posts", limit |-> limit, offset |-> offset,
                  fault |-> fault,
                  ret |-> get_posts(posts, limit, offset, ord, fault)]
      /\ UNCHANGED <<posts, cache, remote, is_logged_in, profile_cache, run, obs>>
  /\ UNCHANGED <<needs_2fa, schema, hist>>

GetUnparsedPosts ==
  /\ last = NoCall
  /\ \E limit \in Limits, offset \in Offsets, fault \in BOOLEAN :
    \E ord \in DescOrders(posts, "post_date") :
      /\ last' = [op |-> "get_unparsed_posts", limit |-> limit, offset |-> offset,
                  fault |-> fault,
                  ret |-> get_unparsed_posts(posts, limit, offset, ord, fault)]
      /\ UNCHANGED <<posts, cache, remote, is_logged_in, profile_cache, run, obs>>
  /\ UNCHANGED <<needs_2fa, schema, hist>>

GetParsedPosts ==
  /\ last = NoCall
  /\ \E limit \in Limits, offset \in Offsets, fault \in BOOLEAN :
    \E ord \in DescOrders(posts, "updated_at") :
      /\ last' = [op |-> "get_parsed_posts", limit |-> limit, offset |-> offset,
                  fault |-> fault,
                  ret |-> get_parsed_posts(posts, limit, offset, ord, fault)]
      /\ UNCHANGED <<posts, cache, remote, is_logged_in, profile_cache, run, obs>>
  /\ UNCHANGED <<needs_2fa, schema, hist>>

\* The result of the call is handed to the caller.
Respond ==
  /\ last # NoCall
  /\ last' = NoCall
  /\ UNCHANGED <<posts, cache, remote, is_logged_in, profile_cache, run, obs>>
  /\ UNCHANGED <<needs_2fa, schema, hist>>

\* The annotation and listing endpoints on one database file.
NextStore ==
  \/ UpdatePostMetadata \/ BatchUpdatePostMetadata
  \/ GetPosts \/ GetUnparsedPosts \/ GetParsedPosts \/ Respond

SpecStore == InitStore /\ [][NextStore]_vars

\* ------------------------------------------------------------- deletions
\* InstagramExtractor.delete_post_by_id and batch_delete_posts: the remote
\* unsave, then the delete in the database.
MaxDeletes == 2

\* What Post.from_shortcode / post.unsave() may do: succeed, raise
\* PostChangedException or LoginRequiredException ("refused"), or raise
\* another Exception.
RemoteOutcomes == {"ok", "refused", "exception"}

\* _unsave_post_from_instagram: False without a remote call when not logged
\* in; False from each of the three handlers; True after post.unsave().
unsave_post_from_instagram(rem, logged, post_id, out) ==
  IF ~logged THEN [remote |-> rem, ret |-> FALSE, branch |-> "not_logged_in"]
  ELSE IF out = "ok"
  THEN [remote |-> SelectSeq(rem, LAMBDA x : x # post_id), ret |-> TRUE,
        branch |-> "ok"]
  ELSE [remote |-> rem, ret |-> FALSE, branch |-> out]

\* A delete that gives up when the remote unsave failed.
extractor_delete_after_unsave(tbl, c, rem, logged, post_id, unsave, out, fault) ==
  LET u == unsave_post_from_instagram(rem, logged, post_id, out)
      d == delete_post_by_id(tbl, c, post_id, fault)
  IN  IF unsave /\ ~u.ret
      THEN [tbl |-> tbl, cache |-> c, remote |-> rem, ret |-> FALSE,
            steps |-> <<"unsave">>]
      ELSE [tbl |-> d.tbl, cache |-> d.cache,
            remote |-> IF unsave THEN u.remote ELSE rem, ret |-> d.ret,
            steps |-> IF unsave THEN <<"unsave", "delete">> ELSE <<"delete">>]

\* InstagramExtractor.delete_post_by_id: the result of the unsave is only
\* logged; the value returned is the one of DatabaseManager.delete_post_by_id.
extractor_delete_post_by_id(tbl, c, rem, logged, post_id, unsave, out, fault) ==
  LET u == unsave_post_from_instagram(rem, logged, post_id, out)
      d == delete_post_by_id(tbl, c, post_id, fault)
  IN  [tbl |-> d.tbl, cache |-> d.cache,
       remote |-> IF unsave THEN u.remote ELSE rem, ret |-> d.ret,
       steps |-> IF unsave THEN <<"unsave", "delete">> ELSE <<"delete">>]

\* The unsave loop of InstagramExtractor.batch_delete_posts over
\* post_ids[i..]; outs[i] is what the remote service does for position i.
RECURSIVE unsave_loop(_, _, _, _, _, _)
unsave_loop(rem, logged, post_ids, i, outs, res) ==
  IF i > Len(post_ids) THEN [remote |-> rem, res |-> res]
  ELSE LET u == unsave_post_from_instagram(rem, logged, post_ids[i], outs[i])
       IN  unsave_loop(u.remote, logged, post_ids, i + 1, outs,
                       IF u.ret
                       THEN [res EXCEPT !.success = Append(@, post_ids[i])]
                       ELSE [res EXCEPT !.failed = Append(@, post_ids[i])])

UnsaveResult0 == [success |-> <<>>, failed |-> <<>>]

\* A batch delete that unsaves only the posts it deleted from the database.
extractor_batch_unsave_deleted(tbl, c, rem, logged, post_ids, unsave, outs, bad, outer) ==
  LET d == batch_delete_posts(tbl, c, post_ids, bad, outer)
      u == unsave_loop(rem, logged, d.res.success_posts, 1, outs, UnsaveResult0)
  IN  [tbl |-> d.tbl, cache |-> d.cache,
       remote |-> IF unsave THEN u.remote ELSE rem,
       res |-> [success_count |-> d.res.success_count,
                failed_count |-> d.res.failed_count,
                success_posts |-> d.res.success_posts,
                failed_posts |-> d.res.failed_posts,
                instagram_unsave_results |->
                  IF unsave THEN u.res ELSE UnsaveResult0]]

\* InstagramExtractor.batch_delete_posts: every id is unsaved remotely, then
\* the whole list goes to DatabaseManager.batch_delete_posts, whose four
\* results are copied into the result.
extractor_batch_delete_posts(tbl, c, rem, logged, post_ids, unsave, outs, bad, outer) ==
  LET u == unsave_loop(rem, logged, post_ids, 1, outs, UnsaveResult0)
      d == batch_delete_posts(tbl, c, post_ids, bad, outer)
  IN  [tbl |-> d.tbl, cache |-> d.cache,
       remote |-> IF unsave THEN u.remote ELSE rem,
       res |-> [success_count |-> d.res.success_count,
                failed_count |-> d.res.failed_count,
                success_posts |-> d.res.success_posts,
                failed_posts |-> d.res.failed_posts,
                instagram_unsave_results |->
                  IF unsave THEN u.res ELSE UnsaveResult0]]

DeleteLists == SeqsUpTo(Ids \cup {EmptyId}, MaxDeletes)

\* The extractor the delete endpoints are called on: a database file with
\* rows, its id cache loaded or not, logged in or not.
InitDelete ==
  /\ posts \in InitialTables
  /\ cache \in {NoCache, PersistedIds(posts)}
  /\ remote \in RemoteLists
  /\ is_logged_in \in BOOLEAN
  /\ profile_cache = FALSE
  /\ run = [p \in Procs |-> IdleRun]
  /\ obs = [p \in Procs |-> FreshObs(<<>>, FALSE, FALSE, <<>>)]
  /\ last = NoCall
  /\ needs_2fa = FALSE
  /\ schema = CurrentColumns
  /\ hist = {}

DeletePostRequest ==
  /\ last = NoCall
  /\ \E id \in Ids, unsave \in BOOLEAN, out \in RemoteOutcomes, fault \in BOOLEAN :
       LET r == extractor_delete_post_by_id(posts, cache, remote, is_logged_in,
                                            id, unsave, out, fault)
       IN  /\ posts' = r.tbl
           /\ cache' = r.cache
           /\ remote' = r.remote
           /\ last' = [op |-> "delete_post_by_id", id |-> id, unsave |-> unsave,
                       out |-> out, fault |-> fault, pre |-> posts,
                       pre_remote |-> remote, ret |-> r.ret, steps |-> r.steps]
  /\ UNCHANGED <<is_logged_in, profile_cache, run, obs>>
  /\ UNCHANGED <<needs_2fa, schema, hist>>

BatchDeletePostRequest ==
  /\ last = NoCall
  /\ \E ids \in DeleteLists, unsave \in BOOLEAN,
        outer \in {"none", "connect", "commit"} :
       \E outs \in {o \in SeqsUpTo(RemoteOutcomes, MaxDeletes) : Len(o) = Len(ids)},
          bad \in {{}} \cup {{i} : i \in DOMAIN ids} :
         LET r == extractor_batch_delete_posts(posts, cache, remote, is_logged_in,
                                               ids, unsave, outs, bad, outer)
         IN  /\ outer # "none" => bad = {}
             /\ posts' = r.tbl
             /\ cache' = r.cache
             /\ remote' = r.remote
             /\ last' = [op |-> "batch_delete_posts", post_ids |-> ids,
                         unsave |-> unsave, outs |-> outs, bad |-> bad,
                         outer |-> outer, pre |-> posts, pre_remote |-> remote,
                         res |-> r.res]
  /\ UNCHANGED <<is_logged_in, profile_cache, run, obs>>
  /\ UNCHANGED <<needs_2fa, schema, hist>>

\* The delete endpoints on one extractor.
NextDelete == DeletePostRequest \/ BatchDeletePostRequest \/ Respond

SpecDelete == InitDelete /\ [][NextDelete]_vars

\* The annotation and listing endpoints and the delete endpoint, on one
\* database file of an extractor that is not logged in.
NextAnnotate ==
  \/ UpdatePostMetadata \/ BatchUpdatePostMetadata
  \/ GetPosts \/ GetUnparsedPosts \/ GetParsedPosts
  \/ DeletePostRequest \/ Respond

SpecAnnotate == InitStore /\ [][NextAnnotate]_vars

\* ------------------------------------------------------------- one manager
\* One DatabaseManager that is the only writer of its database file, its
\* methods called one after the other.
CallGetAllProcessedIds ==
  /\ last = NoCall
  /\ \E fault \in BOOLEAN :
       LET r == get_all_processed_ids(posts, cache, fault)
       IN  /\ cache' = r.cache
           /\ last' = [op |-> "get_all_processed_ids", ret |-> r.ret,
                       branch |-> r.branch]
  /\ UNCHANGED <<posts, remote, is_logged_in, profile_cache, run, obs>>
  /\ UNCHANGED <<needs_2fa, schema, hist>>

CallSavePost ==
  /\ last = NoCall
  /\ \E id \in Ids, l \in Likes, fault \in {"none", "storage", "interrupt"} :
       LET r == save_post(posts, cache, id, l, fault)
       IN  /\ posts' = r.tbl
           /\ cache' = r.cache
           /\ last' = [op |-> "save_post", id |-> id, likes |-> l, fault |-> fault,
                       ret |-> r.ret, branch |-> r.branch, pre |-> posts]
  /\ UNCHANGED <<remote, is_logged_in, profile_cache, run, obs>>
  /\ UNCHANGED <<needs_2fa, schema, hist>>

CallDeletePostById ==
  /\ last = NoCall
  /\ \E id \in Ids, fault \in BOOLEAN :
       LET r == delete_post_by_id(posts, cache, id, fault)
       IN  /\ posts' = r.tbl
           /\ cache' = r.cache
           /\ last' = [op |-> "delete_post_by_id", id |-> id, fault |-> fault,
                       ret |-> r.ret, pre |-> posts]
  /\ UNCHANGED <<remote, is_logged_in, profile_cache, run, obs>>
  /\ UNCHANGED <<needs_2fa, schema, hist>>

CallBatchDeletePosts ==
  /\ last = NoCall
  /\ \E ids \in DeleteLists, outer \in {"none", "connect", "commit"} :
       \E bad \in {{}} \cup {{i} : i \in DOMAIN ids} :
         LET r == batch_delete_posts(posts, cache, ids, bad, outer)
         IN  /\ outer # "none" => bad = {}
             /\ posts' = r.tbl
             /\ cache' = r.cache
             /\ last' = [op |-> "batch_delete_posts", post_ids |-> ids, bad |-> bad,
                         outer |-> outer, res |-> r.res, pre |-> posts]
  /\ UNCHANGED <<remote, is_logged_in, profile_cache, run, obs>>
  /\ UNCHANGED <<needs_2fa, schema, hist>>

\* clear_cache: self._processed_ids_cache = None
CallClearCache ==
  /\ last = NoCall
  /\ cache' = NoCache
  /\ last' = [op |-> "clear_cache"]
  /\ UNCHANGED <<posts, remote, is_logged_in, profile_cache, run, obs>>
  /\ UNCHANGED <<needs_2fa, schema, hist>>

InitManager ==
  /\ posts \in InitialTables
  /\ cache = NoCache
  /\ remote = <<>>
  /\ is_logged_in = FALSE
  /\ profile_cache = FALSE
  /\ run = [p \in Procs |-> IdleRun]
  /\ obs = [p \in Procs |-> FreshObs(<<>>, FALSE, FALSE, <<>>)]
  /\ last = NoCall
  /\ needs_2fa = FALSE
  /\ schema = CurrentColumns
  /\ hist = {}

NextManager ==
  \/ CallGetAllProcessedIds \/ CallSavePost \/ CallDeletePostById
  \/ CallBatchDeletePosts \/ CallClearCache \/ Respond

SpecManager == InitManager /\ [][NextManager]_vars

\* ------------------------------------------------------------- init_database
\* The row r as a table with the columns cols holds it.
Project(r, cols) == [c \in cols |-> r[c]]

\* ALTER TABLE posts ADD COLUMN col TEXT: the rows there are get NULL in it.
AddColumn(tbl, col) ==
  [i \in DOMAIN tbl |->
     [c \in (DOMAIN tbl[i]) \cup {col} |->
        IF c = col THEN NULL ELSE tbl[i][c]]]

\* Where init_database may raise: at connect, at either ALTER TABLE, at
\* CREATE TABLE, at a CREATE INDEX, at commit.
InitFaults ==
  {"none", "connect", "alter_store", "alter_address", "create", "index", "commit"}

\* An init_database that rebuilds a table that lacks a column.
init_database_recreating(tbl, cols, fault) ==
  IF fault = "connect" THEN [tbl |-> tbl, schema |-> cols, ret |-> FALSE]
  ELSE IF cols = CurrentColumns
  THEN [tbl |-> tbl, schema |-> cols, ret |-> fault # "commit"]
  ELSE [tbl |-> <<>>, schema |-> CurrentColumns, ret |-> fault # "commit"]

\* init_database. sqlite3 runs a DDL statement outside a transaction, so
\* each ALTER TABLE and CREATE TABLE that has been executed stays when a
\* later statement raises.
init_database(tbl, cols, fault) ==
  IF fault = "connect" THEN [tbl |-> tbl, schema |-> cols, ret |-> FALSE]
  ELSE IF cols # NoTable
  THEN LET need1 == "parsed_store" \notin cols
           need2 == "parsed_address" \notin cols
           tbl1 == IF need1 THEN AddColumn(tbl, "parsed_store") ELSE tbl
           cols1 == cols \cup {"parsed_store"}
           tbl2 == IF need2 THEN AddColumn(tbl1, "parsed_address") ELSE tbl1
           cols2 == cols1 \cup {"parsed_address"}
       IN  IF need1 /\ fault = "alter_store"
           THEN [tbl |-> tbl, schema |-> cols, ret |-> FALSE]
           ELSE IF need2 /\ fault = "alter_address"
           THEN [tbl |-> tbl1, schema |-> cols1, ret |-> FALSE]
           ELSE [tbl |-> tbl2, schema |-> cols2, ret |-> fault # "commit"]
  ELSE IF fault = "create" THEN [tbl |-> tbl, schema |-> cols, ret |-> FALSE]
  ELSE [tbl |-> <<>>, schema |-> CurrentColumns,
        ret |-> fault \notin {"index", "commit"}]

\* The database files init_database may find: none, one that the earlier
\* script (src/instagram_extractor.py) created and filled, one that an
\* interrupted migration left, one of the current schema.
Schemas ==
  {NoTable} \cup {LegacyColumns \cup extra : extra \in SUBSET AnnotationColumns}

FileTables(cols) ==
  IF cols = NoTable THEN {<<>>}
  ELSE {[i \in DOMAIN t |-> Project(t[i], cols)] :
          t \in {u \in SeqsUpTo({Row(id, l) : id \in Ids, l \in Likes}, NumIds) :
                   \A i, j \in DOMAIN u : i # j => u[i].post_id # u[j].post_id}}

InitFile ==
  /\ schema \in Schemas
  /\ posts \in FileTables(schema)
  /\ cache = NoCache
  /\ remote = <<>>
  /\ is_logged_in = FALSE
  /\ profile_cache = FALSE
  /\ run = [p \in Procs |-> IdleRun]
  /\ obs = [p \in Procs |-> FreshObs(<<>>, FALSE, FALSE, <<>>)]
  /\ last = NoCall
  /\ needs_2fa = FALSE
  /\ hist = {}

InitDatabase ==
  /\ last = NoCall
  /\ \E fault \in InitFaults :
       LET r == init_database(posts, schema, fault)
       IN  /\ posts' = r.tbl
           /\ schema' = r.schema
           /\ last' = [op |-> "init_database", fault |-> fault, ret |-> r.ret,
                       pre |-> posts, pre_schema |-> schema]
  /\ UNCHANGED <<cache, remote, is_logged_in, profile_cache, run, obs>>
  /\ UNCHANGED <<needs_2fa, hist>>

\* init_database called again and again on one database file.
NextFile == InitDatabase \/ Respond

SpecFile == InitFile /\ [][NextFile]_vars

\* ------------------------------------------------------------- InstagramAuth
\* What the remote service and the session file make of a login:
\*   "session"          load_session_from_file succeeds;
\*   "password"         no usable session, loader.login succeeds;
\*   "two_factor"       loader.login raises TwoFactorAuthRequiredException;
\*   "bad_credentials", "connection", "other"  loader.login raises those.
LoginOutcomes ==
  {"session", "password", "two_factor", "bad_credentials", "connection", "other"}

\* InstagramAuth.login. ret: "True", "False", or "raised" when the
\* TwoFactorAuthRequiredException is raised again for the caller.
auth_login(logged, n2fa, out) ==
  IF logged THEN [is_logged_in |-> logged, needs_2fa |-> n2fa, ret |-> "True"]
  ELSE IF out \in {"session", "password"}
  THEN [is_logged_in |-> TRUE, needs_2fa |-> n2fa, ret |-> "True"]
  ELSE IF out = "two_factor"
  THEN [is_logged_in |-> logged, needs_2fa |-> TRUE, ret |-> "raised"]
  ELSE [is_logged_in |-> logged, needs_2fa |-> n2fa, ret |-> "False"]

\* InstagramAuth.verify_2fa. ok: two_factor_login accepts the code.
auth_verify_2fa(logged, n2fa, ok) ==
  IF ok THEN [is_logged_in |-> TRUE, needs_2fa |-> n2fa, ret |-> "True"]
  ELSE [is_logged_in |-> logged, needs_2fa |-> n2fa, ret |-> "False"]

\* InstagramAuth.logout
auth_logout(logged, n2fa) ==
  [is_logged_in |-> FALSE, needs_2fa |-> FALSE, ret |-> "None"]

\* The three methods as calls on the extractor's auth_manager.
AuthLogin ==
  /\ \E out \in LoginOutcomes :
       LET r == auth_login(is_logged_in, needs_2fa, out)
       IN  /\ is_logged_in' = r.is_logged_in
           /\ needs_2fa' = r.needs_2fa
           /\ last' = [op |-> "login", arg |-> out, ret |-> r.ret,
                       pre_logged |-> is_logged_in, pre_2fa |-> needs_2fa]
  /\ obs' = Disturb(obs, FALSE)
  /\ UNCHANGED <<posts, cache, remote, profile_cache, run, schema, hist>>

AuthVerify2fa ==
  /\ \E ok \in BOOLEAN :
       LET r == auth_verify_2fa(is_logged_in, needs_2fa, ok)
       IN  /\ is_logged_in' = r.is_logged_in
           /\ needs_2fa' = r.needs_2fa
           /\ last' = [op |-> "verify_2fa",
                       arg |-> IF ok THEN "accepted" ELSE "rejected",
                       ret |-> r.ret,
                       pre_logged |-> is_logged_in, pre_2fa |-> needs_2fa]
  /\ obs' = Disturb(obs, FALSE)
  /\ UNCHANGED <<posts, cache, remote, profile_cache, run, schema, hist>>

AuthLogout ==
  /\ LET r == auth_logout(is_logged_in, needs_2fa)
     IN  /\ is_logged_in' = r.is_logged_in
         /\ needs_2fa' = r.needs_2fa
         /\ last' = [op |-> "logout", arg |-> "none", ret |-> r.ret,
                     pre_logged |-> is_logged_in, pre_2fa |-> needs_2fa]
  /\ obs' = Disturb(obs, FALSE)
  /\ UNCHANGED <<posts, cache, remote, profile_cache, run, schema, hist>>

\* One extractor: the methods of its InstagramAuth, called at any time, and
\* the extraction run that checks is_logged_in; a reliable store and remote
\* service.
NextAuth ==
  \/ AuthLogin \/ AuthVerify2fa \/ AuthLogout
  \/ RunStart(1, FALSE) \/ RunCount0(1, FALSE) \/ RunIds(1, FALSE)
  \/ RunIdsAssign(1) \/ RunFetch(1, FALSE) \/ RunLoop(1)
  \/ RunItem(1, FALSE) \/ RunCount1(1, FALSE) \/ RunReturn(1)

SpecAuth == Init /\ [][NextAuth]_vars

\* ------------------------------------------------------------- runs in succession
\* Entries of hist.
Event(ev, id) == [ev |-> ev, id |-> id]

InitLoggedIn ==
  /\ posts \in InitialTables
  /\ cache = NoCache
  /\ remote \in RemoteLists
  /\ is_logged_in = TRUE
  /\ profile_cache = FALSE
  /\ run = [p \in Procs |-> IdleRun]
  /\ obs = [p \in Procs |-> FreshObs(<<>>, FALSE, FALSE, <<>>)]
  /\ last = NoCall
  /\ needs_2fa = FALSE
  /\ schema = CurrentColumns
  /\ hist = {}

\* The body of the loop; a save_post that took its "except Exception" and
\* left the post unpersisted is noted.
RetryItem(p) ==
  /\ RunItemStep(p, TRUE)
  /\ hist' = IF /\ last'.op = "save_post" /\ last'.branch = "error"
                /\ last'.id \notin PersistedIds(posts')
             THEN hist \cup {Event("failed", last'.id)} ELSE hist
  /\ UNCHANGED <<needs_2fa, schema>>

\* The body of the loop at position i of the listing, nothing failing.
RunItemAt(p, i) == run[p].idx = i /\ RunItem(p, FALSE)

\* One thread runs extract_saved_posts again and again on an unchanged
\* remote listing, no other caller; any call may fail.
NextRetry ==
  \/ RunStart(1, TRUE) \/ RunCount0(1, TRUE) \/ RunIds(1, TRUE) \/ RunIdsAssign(1)
  \/ RunFetch(1, TRUE) \/ RunLoop(1) \/ RetryItem(1) \/ RunCount1(1, TRUE)
  \/ RunReturn(1)

\* The thread goes on, runs are started again, and failures stop in the
\* end: whenever a call is made again and again, it is made without a
\* failure again and again.
FairRetry ==
  /\ WF_vars(NextRetry)
  /\ SF_vars(RunStart(1, FALSE))
  /\ SF_vars(RunFetch(1, FALSE))
  /\ \A i \in 1..MaxRemote : SF_vars(RunItemAt(1, i))

SpecRetry == InitLoggedIn /\ [][NextRetry]_vars /\ FairRetry

\* InstagramExtractor.delete_post_by_id from the request thread, at any
\* time; a delete that removed the row of a post the remote service still
\* lists is noted.
DeleteLocal ==
  /\ \E id \in Ids, unsave \in BOOLEAN, out \in RemoteOutcomes :
       LET r == extractor_delete_post_by_id(posts, cache, remote, is_logged_in,
                                            id, unsave, out, FALSE)
       IN  /\ posts' = r.tbl
           /\ cache' = r.cache
           /\ remote' = r.remote
           /\ run' = Sync(run, r.cache)
           /\ obs' = Disturb(obs, r.ret)
           /\ hist' = IF r.ret /\ id \in Range(r.remote)
                      THEN hist \cup {Event("deleted", id)} ELSE hist
  /\ last' = NoCall
  /\ UNCHANGED <<is_logged_in, profile_cache, needs_2fa, schema>>

\* One extraction thread and the delete endpoint on one extractor, a
\* reliable store and remote service.
NextRedo ==
  \/ DeleteLocal
  \/ RunStart(1, FALSE) \/ RunCount0(1, FALSE) \/ RunIds(1, FALSE)
  \/ RunIdsAssign(1) \/ RunFetch(1, FALSE) \/ RunLoop(1)
  \/ RunItem(1, FALSE) \/ RunCount1(1, FALSE) \/ RunReturn(1)

SpecRedo == InitLoggedIn /\ [][NextRedo]_vars

\* ------------------------------------------------------------- claims
Collision == last.op = "save_post" /\ RowsWithId(last.pre, last.id) # {}

NoDuplicateIds == \A id \in Ids : Cardinality(RowsWithId(posts, id)) <= 1

Running(p) == run[p].pc # "idle"
Reported(p) == run[p].pc = "done"
RemoteIds(p) == Range(run[p].saved_posts_list)
KnownAtStart(p) == PersistedIds(obs[p].rows0)
NewPositions(p) ==
  {j \in DOMAIN run[p].saved_posts_list :
     run[p].saved_posts_list[j] \in run[p].new_shortcodes}

\* C1: no two rows of the posts table share a post_id; a save_post of a
\* post_id that is already persisted leaves the table as it was (no row
\* added, no field of the existing row changed) and returns False, through
\* the IntegrityError handler ("already exists") unless the storage itself
\* failed.
C1_UniqueIds ==
  /\ NoDuplicateIds
  /\ Collision =>
       /\ posts = last.pre
       /\ last.ret = FALSE
       /\ last.fault # "storage" => last.branch = "exists"

\* A post that is persisted with one like count is saved again with another.
C1_Witness ==
  /\ Collision
  /\ last.branch = "exists"
  /\ \E i \in RowsWithId(last.pre, last.id) : last.pre[i].likes # last.likes

\* C2 as stated: a successful run that directly follows a successful run
\* (no except-branch taken and no interrupt in either, no other call in
\* between or meanwhile) and fetches the same listing reports new_posts = 0
\* and skipped_posts = total_found.
C2_Idempotent ==
  \A p \in Procs :
    ( /\ Reported(p)
      /\ run[p].result.success
      /\ obs[p].prevGood /\ obs[p].clean /\ obs[p].quiet
      /\ run[p].saved_posts_list = obs[p].prevList )
    => /\ run[p].result.new_posts = 0
       /\ run[p].result.skipped_posts = run[p].result.total_found

\* C3 as stated: a successful run (no except-branch taken, no interrupt, no
\* other writer meanwhile) reports total_found = |R| and skipped_posts =
\* |R \cap K|, R the ids of the listing and K the ids persisted at its start.
C3_SetDifference ==
  \A p \in Procs :
    (Reported(p) /\ run[p].result.success /\ obs[p].clean /\ obs[p].quiet)
    => /\ run[p].result.total_found = Cardinality(RemoteIds(p))
       /\ run[p].result.skipped_posts =
            Cardinality(RemoteIds(p) \cap KnownAtStart(p))

\* C4 as stated: a successful run during which no other caller wrote to the
\* store reports new_posts = the number of rows it inserted = its success
\* counter, and total_in_db = the row count at its start + new_posts.
C4_DeltaIsInserted ==
  \A p \in Procs :
    (Reported(p) /\ run[p].result.success /\ obs[p].quiet)
    => /\ run[p].result.new_posts = Cardinality(obs[p].ins)
       /\ run[p].result.new_posts = run[p].count
       /\ run[p].result.total_in_db =
            CountRows(obs[p].rows0) + run[p].result.new_posts

\* C5: an item that fails (save_post's storage error, or an exception while
\* the post is read) does not end the loop: unless an interrupt arrives,
\* every new item is attempted, what the run inserted stays persisted (no
\* other writer), the run does not raise and its report has success = True.
C5_FailureIsolated ==
  \A p \in Procs :
    /\ obs[p].quiet => obs[p].ins \subseteq PersistedIds(posts)
    /\ obs[p].failed # {} /\ obs[p].intr = "none" =>
         /\ run[p].pc \in {"loop", "item", "count1", "done"}
         /\ run[p].pc \in {"count1", "done"} => obs[p].att = NewPositions(p)
         /\ Reported(p) => run[p].result.success

\* The first new item failed, the second was inserted, the report is there.
C5_Witness ==
  \E p \in Procs :
    /\ Reported(p) /\ run[p].result.success
    /\ obs[p].intr = "none" /\ obs[p].quiet
    /\ 1 \in obs[p].failed
    /\ 2 \in obs[p].att /\ obs[p].ins # {}

\* C6: when the profile lookup or the fetch of the listing fails, the run
\* returns a report with success = False, an error and all counts 0, and
\* (no other writer) the table is the one the run started with.
C6_TerminalFailure ==
  \A p \in Procs :
    obs[p].remote_failed =>
      /\ Reported(p)
      /\ run[p].result.error \in {"no_profile", "fetch_error"}
      /\ ~run[p].result.success
      /\ run[p].result.error # None
      /\ run[p].result.total_found = 0 /\ run[p].result.new_posts = 0
      /\ run[p].result.skipped_posts = 0 /\ run[p].result.total_in_db = 0
      /\ obs[p].quiet => posts = obs[p].rows0
      /\ obs[p].ins = {}

\* The fetch failed over a table with rows, after the store was read.
C6_Witness ==
  \E p \in Procs :
    /\ obs[p].remote_failed
    /\ run[p].result.error = "fetch_error"
    /\ "store" \in obs[p].calls
    /\ obs[p].rows0 # <<>> /\ obs[p].quiet

\* C7: a run started while is_logged_in is False returns at once with
\* success = False and the not-logged-in error, having called neither the
\* store nor the remote service.
C7_Unauthorized ==
  \A p \in Procs :
    Running(p) /\ ~obs[p].authed =>
      /\ Reported(p)
      /\ run[p].result = Failure("not_logged_in")
      /\ obs[p].calls = {}
      /\ obs[p].ins = {}
      /\ last = NoCall \/ last.by # p

\* An unauthenticated run over a database file that holds rows.
C7_Witness ==
  \E p \in Procs :
    /\ Reported(p) /\ ~obs[p].authed
    /\ run[p].result.error = "not_logged_in"
    /\ posts # <<>> /\ remote # <<>>

\* C8 as stated: a KeyboardInterrupt that arrives during the per-item loop
\* ends the loop and the run goes on to its report, which has success = True.
C8_InterruptReports ==
  \A p \in Procs :
    obs[p].intr \in {"break", "loop"} =>
      /\ run[p].pc \in {"count1", "done"}
      /\ Reported(p) => run[p].result.success

\* C9: whatever the interleaving of two runs, no post_id has two rows; a
\* losing insert (IntegrityError) is a skip, not a failure; and when a run
\* has reported, its report has success = True, every new item was attempted
\* and every id of its listing that was not persisted when it started has
\* exactly one row.
C9_ConcurrentRuns ==
  /\ NoDuplicateIds
  /\ \A p \in Procs :
       /\ run[p].pc # "raised"
       /\ obs[p].failed = {}
       /\ Reported(p) =>
            /\ run[p].result.success
            /\ obs[p].att = NewPositions(p)
            /\ \A id \in RemoteIds(p) \ KnownAtStart(p) :
                 Cardinality(RowsWithId(posts, id)) = 1

\* Both runs have reported, each inserted a post and lost an insert.
C9_Witness ==
  /\ \A p \in Procs : Reported(p) /\ obs[p].ins # {} /\ obs[p].skips # {}
  /\ obs[1].rows0 = obs[2].rows0

\* C10 as stated: get_all_processed_ids, when its query does not fail,
\* returns exactly the post_ids persisted at the moment of the call.
C10_KnownIdsExact ==
  (last.op = "get_all_processed_ids" /\ last.branch # "error")
  => last.ret = PersistedIds(posts)

\* C11 as stated: save_post reports one of three outcomes that the caller can
\* tell apart. Inserted: it returns True and the row is appended. Already
\* exists (the post_id collides) and storage error (any other failure): the
\* table is as it was, and the value save_post returns for the one differs
\* from the value it returns for the other.
C11_ThreeOutcomes ==
  (last.op = "save_post" /\ last.branch # "interrupted") =>
    LET row == Row(last.id, last.likes)
        onError == save_post(last.pre, cache, last.id, last.likes, "storage")
        onCollision == save_post(<<row>>, cache, last.id, last.likes, "none")
    IN  /\ last.branch = "inserted" =>
              last.ret /\ posts = Append(last.pre, row)
        /\ last.branch \in {"exists", "error"} =>
              ~last.ret /\ posts = last.pre
        /\ last.branch = "exists" => Collision /\ last.ret # onError.ret
        /\ last.branch = "error" => last.ret # onCollision.ret

\* C12: update_post_metadata returns True exactly when the storage works, a
\* field is supplied and the post_id is persisted. Then the rows with that
\* post_id get the supplied fields and a new updated_at, keep every other
\* field (the annotation that was not supplied included), and all other rows
\* are as they were. For a post_id that is not persisted it reports "not
\* found", with no field it fails, and whenever it returns False the table
\* is unchanged.
C12_UpdateFrame ==
  last.op = "update_post_metadata" =>
    LET hit == RowsWithId(last.pre, last.id)
        supplied == last.parsed_store # None \/ last.parsed_address # None
    IN  /\ last.ret <=> (~last.fault /\ supplied /\ hit # {})
        /\ (~last.fault /\ ~supplied) => last.branch = "no_fields"
        /\ (~last.fault /\ supplied /\ hit = {}) => last.branch = "not_found"
        /\ ~last.ret => posts = last.pre
        /\ last.ret =>
             /\ Len(posts) = Len(last.pre)
             /\ \A i \in DOMAIN posts :
                  IF i \in hit
                  THEN /\ posts[i] =
                            [last.pre[i] EXCEPT
                               !.parsed_store = IF last.parsed_store # None
                                                THEN last.parsed_store ELSE @,
                               !.parsed_address = IF last.parsed_address # None
                                                  THEN last.parsed_address ELSE @,
                               !.updated_at = posts[i].updated_at]
                       /\ posts[i].updated_at >= last.pre[i].updated_at
                  ELSE posts[i] = last.pre[i]

\* Only the address is supplied, for a row that has a store, beside another row.
C12_Witness ==
  /\ last.op = "update_post_metadata" /\ last.ret
  /\ last.parsed_store = None
  /\ Len(last.pre) > 1
  /\ \E i \in RowsWithId(last.pre, last.id) :
       last.pre[i].parsed_store = "x" /\ posts[i].parsed_address # last.pre[i].parsed_address

\* C13: in a batch whose transaction commits, every entry is decided on its
\* own. An entry with an id that is persisted and with a field, whose UPDATE
\* does not raise, is applied and listed in success_posts; an entry with no
\* id or no field is listed as invalid, one with an id that is not persisted
\* as not found, one whose UPDATE raises with its exception; the counts are
\* the lengths of the two lists; and each row ends with, for each field, the
\* value of the last applied entry that supplies it (else its old value).
C13_BatchIndependent ==
  (last.op = "batch_update_post_metadata" /\ last.outer = "none") =>
    LET u == last.updates
        Expected(i) ==
          IF u[i].post_id = EmptyId THEN "missing_id"
          ELSE IF u[i].parsed_store = None /\ u[i].parsed_address = None
          THEN "no_fields"
          ELSE IF i \in last.bad THEN "exception"
          ELSE IF u[i].post_id \notin PersistedIds(last.pre) THEN "not_found"
          ELSE "updated"
        Good == {i \in DOMAIN u : Expected(i) = "updated"}
        Applied(j, column) ==
          {i \in Good : u[i].post_id = last.pre[j].post_id /\ u[i][column] # None}
        Final(j, column) ==
          IF Applied(j, column) = {} THEN last.pre[j][column]
          ELSE u[CHOOSE i \in Applied(j, column) :
                   \A k \in Applied(j, column) : k <= i][column]
    IN  /\ last.res.success_count = Cardinality(Good)
        /\ last.res.failed_count = Len(u) - Cardinality(Good)
        /\ Len(last.res.success_posts) = last.res.success_count
        /\ Len(last.res.failed_posts) = last.res.failed_count
        /\ \A i \in DOMAIN u :
             IF i \in Good THEN u[i] \in Range(last.res.success_posts)
             ELSE [post_id |-> u[i].post_id, error |-> Expected(i)]
                    \in Range(last.res.failed_posts)
        /\ Len(posts) = Len(last.pre)
        /\ \A j \in DOMAIN posts :
             /\ posts[j] = [last.pre[j] EXCEPT
                              !.parsed_store = Final(j, "parsed_store"),
                              !.parsed_address = Final(j, "parsed_address"),
                              !.updated_at = posts[j].updated_at]
             /\ (\A i \in Good : u[i].post_id # last.pre[j].post_id)
                  => posts[j] = last.pre[j]

\* The first entry names an id that is not persisted, the second is applied.
C13_Witness ==
  /\ last.op = "batch_update_post_metadata" /\ last.outer = "none"
  /\ Len(last.updates) = 2
  /\ last.updates[1].post_id \notin PersistedIds(last.pre) \cup {EmptyId}
  /\ last.updates[1].parsed_address # None
  /\ last.res.success_count = 1 /\ last.res.failed_count = 1
  /\ posts # last.pre

\* The ids a listing returned.
ListedIds(ret) == {ret[i].post_id : i \in DOMAIN ret}

\* C15 as stated: after update_post_metadata(id, parsed_address = X), X not
\* empty, succeeded on a post that get_unparsed_posts returned, the post is
\* not in get_unparsed_posts() and is in get_parsed_posts(), both called
\* without a limit.
C15_UnparsedToParsed ==
  ( /\ last.op = "update_post_metadata" /\ last.ret
    /\ last.parsed_address \notin {None, EmptyText}
    /\ \E limit \in Limits, offset \in Offsets :
         \E ord \in DescOrders(last.pre, "post_date") :
           last.id \in Range(get_unparsed_posts(last.pre, limit, offset, ord, FALSE)) )
  => /\ \A ord \in DescOrders(posts, "post_date") :
          last.id \notin Range(get_unparsed_posts(posts, NoLimit, 0, ord, FALSE))
     /\ \A ord \in DescOrders(posts, "updated_at") :
          last.id \in ListedIds(get_parsed_posts(posts, NoLimit, 0, ord, FALSE))

\* C16 as stated: get_unparsed_posts, with a limit and an offset that cover
\* the whole result, returns exactly the posts whose parsed_store and
\* parsed_address are each NULL or the empty string.
C16_UnparsedExact ==
  ( /\ last.op = "get_unparsed_posts" /\ ~last.fault
    /\ last.limit # NoLimit /\ last.limit >= Len(posts) /\ last.offset = 0 )
  => Range(last.ret) =
       {posts[i].post_id : i \in
          {j \in DOMAIN posts :
             /\ posts[j].parsed_store \in {NULL, EmptyText}
             /\ posts[j].parsed_address \in {NULL, EmptyText}}}

\* The rest of s after its first n elements.
Drop(s, n) == IF n >= Len(s) THEN <<>> ELSE SubSeq(s, n + 1, Len(s))

\* offset rows skipped, then at most limit rows; all the rest with no limit.
Window(s, limit, offset) ==
  LET rest == Drop(s, offset)
  IN  IF limit = NoLimit \/ limit >= Len(rest) THEN rest ELSE SubSeq(rest, 1, limit)

\* C17 as stated: get_parsed_posts returns exactly the posts whose
\* parsed_address is neither NULL nor empty, whatever their parsed_store,
\* after the first offset ones and at most limit of them; with no limit, all
\* of them after the first offset ones.
C17_ParsedExact ==
  (last.op = "get_parsed_posts" /\ ~last.fault) =>
    \E ord \in DescOrders(posts, "updated_at") :
      LET want == SelectSeq(Ordered(posts, ord),
                            LAMBDA r : r.parsed_address \notin {NULL, EmptyText})
          window == Window(want, last.limit, last.offset)
      IN  last.ret = [i \in DOMAIN window |->
                        [post_id |-> window[i].post_id,
                         parsed_store |-> window[i].parsed_store,
                         parsed_address |-> window[i].parsed_address]]

\* C20 as stated: get_posts returns the rows in descending post_date order,
\* without the first offset ones and at most limit of them; with no limit,
\* all of them after the first offset ones.
C20_PostsWindow ==
  (last.op = "get_posts" /\ ~last.fault) =>
    \E ord \in DescOrders(posts, "post_date") :
      last.ret = Window(Ordered(posts, ord), last.limit, last.offset)

\* C14: in a batch whose transaction commits, every listed id is decided on
\* its own. A listed id that is persisted is deleted (by its first
\* occurrence whose DELETE does not raise) and counted in success_count;
\* every other occurrence (empty, not persisted, already deleted, raising) is
\* counted in failed_count and listed in failed_posts; and the table is the
\* old one without the deleted ids, so rows that are not listed stay.
C14_BatchDeleteIndependent ==
  (last.op = "batch_delete_posts" /\ last.outer = "none") =>
    LET ids == last.post_ids
        Succ == {i \in DOMAIN ids :
                   /\ ids[i] # EmptyId /\ i \notin last.bad
                   /\ ids[i] \in PersistedIds(last.pre)
                   /\ \A k \in 1..(i - 1) : ids[k] = ids[i] => k \in last.bad}
        gone == {ids[i] : i \in Succ}
    IN  /\ last.res.success_count = Cardinality(Succ)
        /\ last.res.failed_count = Len(ids) - Cardinality(Succ)
        /\ Len(last.res.success_posts) = last.res.success_count
        /\ Len(last.res.failed_posts) = last.res.failed_count
        /\ Range(last.res.success_posts) = gone
        /\ \A i \in DOMAIN ids \ Succ : ids[i] \in Range(last.res.failed_posts)
        /\ posts = SelectSeq(last.pre, LAMBDA r : r.post_id \notin gone)
        /\ \A id \in PersistedIds(last.pre) : id \notin Range(ids) =>
             id \in PersistedIds(posts)

\* The first id is not persisted, the second is persisted and is deleted.
C14_Witness ==
  /\ last.op = "batch_delete_posts" /\ last.outer = "none"
  /\ Len(last.post_ids) = 2
  /\ last.post_ids[1] \notin PersistedIds(last.pre)
  /\ last.post_ids[2] \in PersistedIds(last.pre)
  /\ last.res.success_count = 1 /\ last.res.failed_count = 1
  /\ last.post_ids[2] \notin PersistedIds(posts)

\* C18: delete_post_by_id with unsave_from_instagram first attempts the
\* remote unsave and then, whatever came of it, deletes in the database; the
\* value returned is True exactly when the database works and a row with the
\* post_id was persisted, and then that row is gone; otherwise the table is
\* as it was.
C18_DeleteAfterUnsave ==
  last.op = "delete_post_by_id" =>
    /\ last.steps = IF last.unsave THEN <<"unsave", "delete">> ELSE <<"delete">>
    /\ last.ret <=> (~last.fault /\ last.id \in PersistedIds(last.pre))
    /\ last.ret => posts = DeleteRows(last.pre, last.id) /\ posts # last.pre
    /\ ~last.ret => posts = last.pre
    /\ ~last.unsave => remote = last.pre_remote

\* The remote unsave failed and the row was deleted all the same.
C18_Witness ==
  /\ last.op = "delete_post_by_id" /\ last.unsave
  /\ ~is_logged_in \/ last.out # "ok"
  /\ remote = last.pre_remote
  /\ last.ret /\ posts # last.pre

\* The elements of s at the positions in P, in order.
AtPositions(s, P) ==
  LET idx == SelectSeq([i \in DOMAIN s |-> i], LAMBDA i : i \in P)
  IN  [k \in DOMAIN idx |-> s[idx[k]]]

\* C19: batch_delete_posts reports the two sides apart. With
\* unsave_from_instagram every listed id is attempted remotely and is listed
\* once, under success when its unsave succeeded and under failed when not,
\* whatever its local delete did; the four local results are those of the
\* database's batch delete, whatever the remote outcomes; without the flag
\* both remote lists are empty and the remote service is not changed.
C19_SeparateResults ==
  last.op = "batch_delete_posts" =>
    LET ids == last.post_ids
        local == batch_delete_posts(last.pre, NoCache, ids, last.bad, last.outer).res
        ok == {i \in DOMAIN ids : is_logged_in /\ last.outs[i] = "ok"}
        ig == last.res.instagram_unsave_results
    IN  /\ last.res.success_count = local.success_count
        /\ last.res.failed_count = local.failed_count
        /\ last.res.success_posts = local.success_posts
        /\ last.res.failed_posts = local.failed_posts
        /\ last.unsave =>
             /\ ig.success = AtPositions(ids, ok)
             /\ ig.failed = AtPositions(ids, DOMAIN ids \ ok)
        /\ ~last.unsave =>
             /\ ig.success = <<>> /\ ig.failed = <<>>
             /\ remote = last.pre_remote

\* One id is unsaved remotely but not deleted locally, the other is deleted
\* locally but its unsave failed.
C19_Witness ==
  /\ last.op = "batch_delete_posts" /\ last.unsave /\ last.outer = "none"
  /\ Len(last.post_ids) = 2
  /\ last.res.instagram_unsave_results.success = <<last.post_ids[1]>>
  /\ last.res.instagram_unsave_results.failed = <<last.post_ids[2]>>
  /\ last.res.success_posts = <<last.post_ids[2]>>
  /\ last.res.failed_posts = <<last.post_ids[1]>>

\* The columns of the rows of tbl that are written once, at the insert.
Identity(tbl) ==
  [i \in DOMAIN tbl |->
     [post_id |-> tbl[i].post_id, post_date |-> tbl[i].post_date,
      likes |-> tbl[i].likes]]

InUnparsed(tbl, post_id) ==
  \E ord \in DescOrders(tbl, "post_date") :
    post_id \in Range(get_unparsed_posts(tbl, Len(tbl) + 1, 0, ord, FALSE))

InParsed(tbl, post_id) ==
  \E ord \in DescOrders(tbl, "updated_at") :
    post_id \in ListedIds(get_parsed_posts(tbl, Len(tbl) + 1, 0, ord, FALSE))

\* C29: in every state no post is returned by both get_unparsed_posts and
\* get_parsed_posts, and over every step a post whose parsed_address is set
\* and not empty is not returned by get_unparsed_posts afterwards.
C29_ParsedStaysParsed ==
  /\ [](\A id \in Ids : ~(InUnparsed(posts, id) /\ InParsed(posts, id)))
  /\ [][ \A i \in DOMAIN posts :
           posts[i].parsed_address \notin {NULL, EmptyText}
             => ~InUnparsed(posts', posts[i].post_id) ]_vars

\* An update has emptied the parsed_address of a post that had one: the
\* post is in neither listing.
C29_Witness ==
  /\ last.op = "update_post_metadata" /\ last.ret
  /\ last.parsed_address = EmptyText
  /\ \E i \in DOMAIN last.pre :
       /\ last.pre[i].post_id = last.id
       /\ last.pre[i].parsed_address = "x"
  /\ ~InUnparsed(posts, last.id)
  /\ ~InParsed(posts, last.id)

\* C24 as stated: where a run has stopped after a save_post it made, with
\* no other caller writing during the run, the post that save_post was
\* given is in the table and in the processed-id cache, or in neither.
C24_InsertWhole ==
  \A p \in Procs :
    ( /\ run[p].pc = "count1"
      /\ last.op = "save_post" /\ last.by = p
      /\ obs[p].quiet
      /\ cache # NoCache )
    => (last.id \in PersistedIds(posts) <=> last.id \in cache)

\* The ids the listing of run p holds at more than one position.
ListedTwice(p) ==
  {id \in RemoteIds(p) :
     Cardinality({j \in DOMAIN run[p].saved_posts_list :
                    run[p].saved_posts_list[j] = id}) > 1}

\* C23 as stated: a successful run (no except-branch taken, no interrupt, no
\* other writer meanwhile) whose listing holds an id twice that was not
\* persisted at its start leaves exactly one row of that id, has it in the
\* processed-id cache, counts it once in total_found and once in new_posts.
C23_ListedTwice ==
  \A p \in Procs :
    (Reported(p) /\ run[p].result.success /\ obs[p].clean /\ obs[p].quiet)
    => \A id \in ListedTwice(p) \ KnownAtStart(p) :
         /\ Cardinality(RowsWithId(posts, id)) = 1
         /\ cache # NoCache /\ id \in cache
         /\ run[p].result.total_found = Cardinality(RemoteIds(p))
         /\ run[p].result.new_posts =
              Cardinality(RemoteIds(p) \ KnownAtStart(p))

\* C28 as stated: every report with success = True has
\* 0 <= new_posts <= total_found - skipped_posts.
C28_NewWithinBounds ==
  \A p \in Procs :
    (Reported(p) /\ run[p].result.success)
    => /\ run[p].result.new_posts >= 0
       /\ run[p].result.new_posts
            <= run[p].result.total_found - run[p].result.skipped_posts

\* C25 as stated: after any sequence of calls of one manager that is the
\* only writer, the processed-id cache is None or the set of the post_ids
\* persisted in the table.
C25_CacheCoherent == cache = NoCache \/ cache = PersistedIds(posts)

\* C22: init_database loses nothing and adds nothing: the table holds the
\* rows it held, in their order, with the values they had in the columns it
\* had, and NULL in the columns that were added. When it returns True the
\* table has both annotation columns, and a second init_database leaves the
\* table and its columns as they are.
C22_MigrationKeepsRows ==
  last.op = "init_database" =>
    /\ Len(posts) = Len(last.pre)
    /\ \A i \in DOMAIN posts :
         /\ DOMAIN posts[i] = schema
         /\ \A c \in last.pre_schema : posts[i][c] = last.pre[i][c]
         /\ \A c \in schema \ last.pre_schema : posts[i][c] = NULL
    /\ last.pre_schema \subseteq schema
    /\ last.ret =>
         /\ AnnotationColumns \subseteq schema
         /\ init_database(posts, schema, "none")
              = [tbl |-> posts, schema |-> schema, ret |-> TRUE]
    /\ last.fault = "none" => last.ret

\* A filled table without annotation columns has been migrated.
C22_Witness ==
  /\ last.op = "init_database" /\ last.ret
  /\ last.pre_schema = LegacyColumns
  /\ Len(last.pre) = 2
  /\ schema = CurrentColumns
  /\ \E i \in DOMAIN posts : posts[i].likes = 1 /\ posts[i].parsed_store = NULL

\* C30 as stated: is_logged_in and needs_2fa are never both true, a
\* verify_2fa that succeeded leaves needs_2fa false, and logout leaves both
\* false.
C30_FlagsExclusive ==
  /\ ~(is_logged_in /\ needs_2fa)
  /\ (last.op = "verify_2fa" /\ last.ret = "True") => ~needs_2fa
  /\ last.op = "logout" => (~is_logged_in /\ ~needs_2fa)

\* A save_post has just taken its "except Exception" for a post that is not
\* persisted.
InsertFailed(id) ==
  /\ last.op = "save_post" /\ last.branch = "error" /\ last.id = id
  /\ id \notin PersistedIds(posts)

\* C26: a post whose save_post failed with a storage error is not added to
\* the processed-id cache, and it is persisted later on; with the listing
\* unchanged, runs repeated and failures stopping, in the end every listed
\* id is persisted and stays so.
C26_FailedIsRetried ==
  /\ [](\A id \in Ids : InsertFailed(id) => (cache = NoCache \/ id \notin cache))
  /\ \A id \in Ids : InsertFailed(id) ~> (id \in PersistedIds(posts))
  /\ <>[](Range(remote) \subseteq PersistedIds(posts))

\* A post whose save_post failed in an earlier run has been inserted by this
\* run.
C26_Witness ==
  /\ last.op = "save_post" /\ last.branch = "inserted"
  /\ Event("failed", last.id) \in hist
  /\ Cardinality({j \in DOMAIN run[1].saved_posts_list :
                    run[1].saved_posts_list[j] = last.id}) = 1
  /\ Range(remote) \subseteq PersistedIds(posts)

\* C27 as stated: a successful run (nothing failing, no other caller
\* writing meanwhile) that starts after delete_post_by_id removed the row of
\* a post, and fetches a listing that still holds the post, persists the
\* post again and counts it in new_posts.
C27_DeletedIsPersistedAgain ==
  \A p \in Procs :
    (Reported(p) /\ run[p].result.success /\ obs[p].clean /\ obs[p].quiet)
    => \A id \in RemoteIds(p) \ KnownAtStart(p) :
         Event("deleted", id) \in hist
           => /\ id \in PersistedIds(posts)
              /\ id \in obs[p].ins
              /\ run[p].result.new_posts =
                   Cardinality(RemoteIds(p) \ KnownAtStart(p))

====
